---- MODULE Spec2Model ----
(***************************************************************************)
(* Conjugate gradient solver of G+Smo (gsConjugateGradient) together with  *)
(* the solve loop of its base class gsIterativeSolver.                     *)
(*                                                                         *)
(* real_t values are modelled exactly: a value is a pair <<n, d>> with     *)
(*   d > 0, gcd(|n|, d) = 1   the rational n/d,                            *)
(*   <<1, 0>>, <<-1, 0>>      +infinity, -infinity,                        *)
(*   <<0, 0>>                 not-a-number,                                *)
(* so that a division by zero yields what IEEE arithmetic yields (zero is  *)
(* unsigned here, so x/0 takes the sign of x) instead of being left out.   *)
(* Norms are square roots; a value sqrt(q) is the record [sq |-> q].       *)
(***************************************************************************)
EXTENDS Integers, Sequences, FiniteSets, TLC

\* ------------------------------------------------------------------ bounds
\* largest iteration cap a solver is configured with
MaxIters == 3
\* number of solve() calls made on one solver instance
MaxSolves == 2
\* elements a process sends in a gatherv call
MaxSend == 2
\* offset of the data of process 0 in the receive buffer
MaxDispl == 2
\* processes the tutorial is started on
NProcs == 3
\* boxes a topology holds
MaxBoxes == 2
\* boundaries, and interfaces, a topology holds
MaxSides == 2
\* rows and columns of a sparse matrix, and the entries it stores
MaxRows == 2
MaxCols == 2
MaxStored == 2

\* ------------------------------------------------------------- real_t values
Abs(i) == IF i < 0 THEN -i ELSE i

Sign(i) == IF i < 0 THEN -1 ELSE IF i = 0 THEN 0 ELSE 1

RECURSIVE GCD(_, _)
GCD(a, b) == IF b = 0 THEN a ELSE GCD(b, a % b)

NaN == <<0, 0>>
PosInf == <<1, 0>>
NegInf == <<-1, 0>>
Zero == <<0, 1>>
One == <<1, 1>>
MinusOne == <<-1, 1>>

\* the real_t value of the integer i
R(i) == <<i, 1>>

IsNaN(a) == a = NaN
IsFinite(a) == a[2] > 0

\* n/d in lowest terms; d = 0 gives an infinity or NaN
Norm(n, d) ==
    IF d = 0 THEN <<Sign(n), 0>>
    ELSE LET s == IF d < 0 THEN -1 ELSE 1
             g == GCD(Abs(n), Abs(d))
         IN  <<(s * n) \div g, Abs(d) \div g>>

\* the product, cancelling common factors before multiplying
Mul(a, b) ==
    IF a[2] = 0 \/ b[2] = 0 THEN <<Sign(a[1] * b[1]), 0>>
    ELSE LET g1 == GCD(Abs(a[1]), b[2])
             g2 == GCD(Abs(b[1]), a[2])
         IN  Norm((a[1] \div g1) * (b[1] \div g2), (a[2] \div g2) * (b[2] \div g1))

Neg(a) == <<-a[1], a[2]>>

Add(a, b) ==
    IF IsNaN(a) \/ IsNaN(b) THEN NaN
    ELSE IF ~IsFinite(a) /\ ~IsFinite(b) THEN (IF a = b THEN a ELSE NaN)
    ELSE IF ~IsFinite(a) THEN a
    ELSE IF ~IsFinite(b) THEN b
    ELSE LET g == GCD(a[2], b[2])
         IN  Norm(a[1] * (b[2] \div g) + b[1] * (a[2] \div g),
                  (a[2] \div g) * b[2])

Sub(a, b) == Add(a, Neg(b))

\* 1/a: 1/0 = +inf, 1/inf = 0
Inv(a) ==
    IF IsNaN(a) THEN NaN
    ELSE IF ~IsFinite(a) THEN Zero
    ELSE IF a[1] = 0 THEN PosInf
    ELSE <<Sign(a[1]) * a[2], Abs(a[1])>>

Div(a, b) == Mul(a, Inv(b))

\* a < b; false as soon as one side is NaN
Lt(a, b) ==
    IF IsNaN(a) \/ IsNaN(b) THEN FALSE
    ELSE IF a = b THEN FALSE
    ELSE IF a = NegInf \/ b = PosInf THEN TRUE
    ELSE IF a = PosInf \/ b = NegInf THEN FALSE
    ELSE a[1] * b[2] < b[1] * a[2]

Le(a, b) == Lt(a, b) \/ (~IsNaN(a) /\ a = b)

\* square roots of non-negative values, kept as [sq |-> q] for sqrt(q)
Sqrt(q) == [sq |-> IF Lt(q, Zero) THEN NaN ELSE q]

RootDiv(a, b) == [sq |-> Div(a.sq, b.sq)]

RootIsZero(a) == a.sq = Zero

\* sqrt(q) < t for a real t
RootLt(a, t) == Lt(Zero, t) /\ Lt(a.sq, Mul(t, t))

RootLe(a, t) == Le(Zero, t) /\ Le(a.sq, Mul(t, t))

\* -sqrt(beta)/alpha, a signed root: sgn * sqrt(sq)
NegSqrtOver(beta, alpha) ==
    IF IsNaN(beta) \/ IsNaN(alpha) \/ Lt(beta, Zero) THEN [sgn |-> 0, sq |-> NaN]
    ELSE LET q == Div(beta, Mul(alpha, alpha))
         IN  IF IsNaN(q) THEN [sgn |-> 0, sq |-> NaN]
             ELSE IF q = Zero THEN [sgn |-> 0, sq |-> Zero]
             ELSE [sgn |-> -Sign(alpha[1]), sq |-> q]

\* ------------------------------------------------------------------ vectors
IntVec(v) == [i \in DOMAIN v |-> R(v[i])]

ZeroVec(n) == [i \in 1..n |-> Zero]

RECURSIVE DotUpTo(_, _, _)
DotUpTo(u, v, k) ==
    IF k = 0 THEN Zero ELSE Add(DotUpTo(u, v, k - 1), Mul(u[k], v[k]))

\* u.dot(v), accumulated left to right
Dot(u, v) == DotUpTo(u, v, Len(u))

VecNorm(v) == Sqrt(Dot(v, v))

VecAdd(u, v) == [i \in DOMAIN u |-> Add(u[i], v[i])]

VecSub(u, v) == [i \in DOMAIN u |-> Sub(u[i], v[i])]

Scale(a, v) == [i \in DOMAIN v |-> Mul(a, v[i])]

\* the linear operator given by the integer matrix A, applied to v
Apply(A, v) == [i \in DOMAIN A |-> Dot(IntVec(A[i]), v)]

\* M is an identity matrix
IsIdentity(M) ==
    \A i, j \in DOMAIN M : M[i][j] = IF i = j THEN 1 ELSE 0

\* the preconditioner M applied to v: the identity preconditioner is the
\* identity operator, which copies its input; any other one multiplies
PrecondApply(M, v) == IF IsIdentity(M) THEN v ELSE Apply(M, v)

\* ------------------------------------------------------------ solver inputs
\* system matrices: three SPD ones (the third with a residual norm that
\* grows in the first step), an indefinite one, a singular one, the
\* 3 x 3 operator diag(1, 4, 9) and a 1 x 1 operator
Operators ==
    { << <<2>> >>,
      << <<1, 0>>, <<0, 4>> >>,
      << <<2, -1>>, <<-1, 2>> >>,
      << <<1, -2>>, <<-2, 6>> >>,
      << <<1, 0>>, <<0, -1>> >>,
      << <<1, 0>>, <<0, 0>> >>,
      << <<1, 0, 0>>, <<0, 4, 0>>, <<0, 0, 9>> >> }

\* preconditioners: the identity of each size, an SPD scaling and an
\* indefinite one
Preconditioners ==
    { << <<1>> >>,
      << <<1, 0>>, <<0, 1>> >>,
      << <<2, 0>>, <<0, 1>> >>,
      << <<1, 0>>, <<0, -1>> >>,
      << <<1, 0, 0>>, <<0, 1, 0>>, <<0, 0, 1>> >> }

Tolerances == { <<1, 10>>, <<1, 1>> }

\* the right-hand side of the system diag(1, 4, 9) x = (1, 2, 3)
ExampleRhs == << 1, 2, 3 >>

\* right-hand sides for an operator with n columns: all 0/1 vectors for the
\* 1 x 1 and 2 x 2 operators, zero and ExampleRhs for the 3 x 3 one
Vectors(n) ==
    IF n = Len(ExampleRhs)
    THEN { ZeroVec(n), IntVec(ExampleRhs) }
    ELSE { IntVec(v) : v \in [1..n -> {0, 1}] }

\* initial guesses for an operator with n columns: the zero vector and the
\* vectors without a zero entry
Guesses(n) ==
    { v \in Vectors(n) : v = ZeroVec(n) \/ \A i \in 1..n : v[i] # Zero }

\* pairs << rhs, x >> whose sizes do not fit an operator with n rows and
\* columns: a right-hand side one entry too long, an initial guess one entry
\* too long
MismatchedInputs(n) ==
    { << ZeroVec(n + 1), ZeroVec(n) >>,
      << [i \in 1..n |-> One], [i \in 1..(n + 1) |-> One] >> }

\* a matrix resized to n rows keeps its coefficients only if the size is
\* unchanged; the new coefficients are unspecified and are assigned before
\* they are read
Resize(v, n) == IF Len(v) = n THEN v ELSE [i \in 1..n |-> NaN]

\* -------------------------------------------------------------------- state
VARIABLES
    m_mat,            \* the system matrix (borrowed)
    m_precond,        \* the preconditioner (borrowed)
    m_tol,            \* tolerance on the relative residual
    m_max_iters,      \* iteration cap
    m_calcEigenvals,  \* record delta/gamma for the spectral estimate
    m_num_iter,       \* iterations done in the current solve
    m_rhs_norm,       \* norm of the right-hand side
    m_error,          \* current relative residual
    m_abs_new,        \* preconditioned inner product r . M^-1 r
    m_res,            \* residual
    m_update,         \* search direction
    m_tmp,            \* scratch vector
    m_delta,          \* diagonal coefficients of the Lanczos matrix
    m_gamma,          \* off-diagonal coefficients of the Lanczos matrix
    state,            \* "Idle" before the first solve, then the state of solve()
    rhs,              \* right-hand side argument of the current solve
    x,                \* the caller's solution vector, updated in place
    matApplies,       \* m_mat->apply calls made by the current solve
    precApplies,      \* m_precond->apply calls made by the current solve
    solves,           \* solve() calls made on this instance
    breakdown,        \* the first degenerate denominator met by the current solve
    result,           \* value returned by the last spectral query, if any
    fresh,            \* under FreshSpec: a newly constructed solver of the same
                      \* configuration that is given the calls of this one
    peer,             \* under ConcSpec: a second solver instance that borrows
                      \* the same operator and preconditioner
    construction,     \* under ConstructSpec: how far the constructor has come
    buffers,          \* under GatherSpec: the arguments of a gatherv call
    comm,             \* under TutorialSpec: the world communicator
    pc,               \* under TutorialSpec: the line each process is at
    gsInfo,           \* under TutorialSpec: the messages written so far
    topology,         \* under BoxSpec: a gsBoxTopology
    other,            \* under BoxSpec: the gsBoxTopology it is swapped with
    firstDim,         \* under BoxSpec: the dimension that first replaced -1
                      \* since the topology was constructed, cleared or swapped
    mat,              \* under XmlSpec: a sparse matrix: its size and the
                      \* values it stores, by << row, column >>
    node,             \* under XmlSpec: an XML node, its value a sequence of
                      \* characters
    entries           \* under XmlSpec: a gsSparseEntries container, and who
                      \* filled it

vars == << m_mat, m_precond, m_tol, m_max_iters, m_calcEigenvals, m_num_iter,
           m_rhs_norm, m_error, m_abs_new, m_res, m_update, m_tmp, m_delta,
           m_gamma, state, rhs, x, matApplies, precApplies, solves, breakdown,
           result, fresh, peer, construction, buffers, comm, pc, gsInfo,
           topology, other, firstDim, mat, node, entries >>

mpiVars == << buffers, comm, pc, gsInfo >>

boxVars == << topology, other, firstDim >>

xmlVars == << mat, node, entries >>

\* the state of the components other than the solver
elsewhere == << construction, mpiVars, boxVars, xmlVars >>

config == << m_mat, m_precond, m_tol, m_max_iters, m_calcEigenvals >>

NoResult == [op |-> "none"]

NoBreakdown == [seen |-> FALSE]

\* the members of a solver that has just been constructed; m_error is not
\* initialised, Init lets it take either of two values
FreshMembers ==
    [m_num_iter |-> 0, m_rhs_norm |-> Sqrt(NaN), m_error |-> Sqrt(NaN),
     m_abs_new |-> NaN, m_res |-> << >>, m_update |-> << >>, m_tmp |-> << >>,
     m_delta |-> << >>, m_gamma |-> << >>, state |-> "Idle", x |-> << >>]

\* a second instance that has just been constructed: its members, the
\* arguments of its current solve and the number of its solve() calls
PeerMembers == FreshMembers @@ [rhs |-> << >>, x0 |-> << >>, solves |-> 0]

\* no communicator call made, no process started
MpiIdle ==
    /\ buffers = [called |-> "none"]
    /\ comm = [name |-> "gsSerialComm", size |-> 1]
    /\ pc = << >>
    /\ gsInfo = << >>

\* gsBoxTopology(): no dimension, no box, no boundary, no interface
EmptyTopology ==
    [m_dim |-> -1, nboxes |-> 0, m_boundary |-> << >>, m_interfaces |-> << >>]

BoxIdle ==
    /\ topology = EmptyTopology
    /\ other = EmptyTopology
    /\ firstDim = -1

\* an empty matrix, no node written, an empty container
XmlIdle ==
    /\ mat = [rows |-> 0, cols |-> 0, stored |-> << >>]
    /\ node = [name |-> "none", value |-> << >>]
    /\ entries = [from |-> "caller", triplets |-> << >>]

\* the other components before they are used; the solver is constructed
ElsewhereInit ==
    /\ construction = "Built"
    /\ MpiIdle
    /\ BoxIdle
    /\ XmlIdle

\* the members of a solver that has just been constructed, before its
\* first solve
MembersInit ==
    /\ m_num_iter = 0
    /\ m_rhs_norm = Sqrt(NaN)
    /\ m_error \in { Sqrt(NaN), Sqrt(Zero) }
    /\ m_abs_new = NaN
    /\ m_res = << >>
    /\ m_update = << >>
    /\ m_tmp = << >>
    /\ m_delta = << >>
    /\ m_gamma = << >>
    /\ state = "Idle"
    /\ rhs = << >>
    /\ x = << >>
    /\ matApplies = 0
    /\ precApplies = 0
    /\ solves = 0
    /\ breakdown = NoBreakdown
    /\ result = NoResult
    /\ fresh = FreshMembers
    /\ peer = PeerMembers

Init ==
    /\ m_mat \in Operators
    /\ m_precond \in Preconditioners
    /\ Len(m_precond) = Len(m_mat)
    /\ m_tol \in Tolerances
    /\ m_max_iters \in { 1, MaxIters }
    /\ m_calcEigenvals \in BOOLEAN
    /\ MembersInit
    /\ ElsewhereInit

\* ------------------------------------------------- gsConjugateGradient (code)
\* the convergence test written with <= instead of <
ErrorBelowTol_le(err) == RootLe(err, m_tol)

\* the convergence test with the comparison turned around
ErrorBelowTol_gt(err) == Lt(m_tol, Zero) \/ Lt(Mul(m_tol, m_tol), err.sq)

\* a convergence test that never succeeds
ErrorBelowTol_never(err) == FALSE

\* the convergence test  m_error < m_tol
ErrorBelowTol(err) == RootLt(err, m_tol)

\* the trace reset without the test of m_calcEigenvals
TraceInit_always == [m_delta |-> << Zero >>, m_gamma |-> << >>]

\* the trace reset without m_gamma.clear()
TraceInit_keepGamma ==
    IF m_calcEigenvals
    THEN [m_delta |-> << Zero >>, m_gamma |-> m_gamma]
    ELSE [m_delta |-> m_delta, m_gamma |-> m_gamma]

\* the trace reset without m_delta.clear(): resize(1,0) keeps a first element
TraceInit_keepDelta ==
    IF m_calcEigenvals
    THEN [m_delta |-> IF m_delta = << >> THEN << Zero >> ELSE << m_delta[1] >>,
          m_gamma |-> << >>]
    ELSE [m_delta |-> m_delta, m_gamma |-> m_gamma]

\* the trace set up on the first tracked solve only
TraceInit_firstSolveOnly ==
    IF m_calcEigenvals /\ m_delta = << >>
    THEN [m_delta |-> << Zero >>, m_gamma |-> << >>]
    ELSE [m_delta |-> m_delta, m_gamma |-> m_gamma]

\* start of initIteration: reset the coefficient trace when tracking
TraceInit ==
    IF m_calcEigenvals
    THEN [m_delta |-> << Zero >>, m_gamma |-> << >>]
    ELSE [m_delta |-> m_delta, m_gamma |-> m_gamma]

\* no test of the sizes
DimensionsAgree_unchecked(rhsArg, xArg) == TRUE

\* the sizes of the right-hand side and of the initial guess fit the operator
DimensionsAgree(rhsArg, xArg) ==
    /\ Len(rhsArg) = Len(m_mat)
    /\ Len(xArg) = Len(m_mat[1])

\* the base class leaving the iteration count of the previous solve in place
Base_initIteration_keepCount(rhsArg, xArg) ==
    LET nrm == VecNorm(rhsArg)
    IN  IF ~DimensionsAgree(rhsArg, xArg)
        THEN [thrown |-> TRUE, ret |-> FALSE, x |-> xArg]
        ELSE IF RootIsZero(nrm)
        THEN [thrown |-> FALSE, ret |-> TRUE, x |-> ZeroVec(Len(rhsArg)),
              m_rhs_norm |-> nrm, m_num_iter |-> m_num_iter,
              m_error |-> Sqrt(Zero)]
        ELSE [thrown |-> FALSE, ret |-> FALSE, x |-> xArg,
              m_rhs_norm |-> nrm, m_num_iter |-> m_num_iter]

\* gsIterativeSolver::initIteration: reject arguments of the wrong size
\* (thrown: the call does not return and changes nothing); otherwise reset
\* the counter, take the norm of the right-hand side; a zero right-hand side
\* is solved by x = 0 with error 0
Base_initIteration(rhsArg, xArg) ==
    LET nrm == VecNorm(rhsArg)
    IN  IF ~DimensionsAgree(rhsArg, xArg)
        THEN [thrown |-> TRUE, ret |-> FALSE, x |-> xArg]
        ELSE IF RootIsZero(nrm)
        THEN [thrown |-> FALSE, ret |-> TRUE, x |-> ZeroVec(Len(rhsArg)),
              m_rhs_norm |-> nrm, m_num_iter |-> 0, m_error |-> Sqrt(Zero)]
        ELSE [thrown |-> FALSE, ret |-> FALSE, x |-> xArg,
              m_rhs_norm |-> nrm, m_num_iter |-> 0]

\* the flag returned by the base class ignored
ReturnsEarly_never(b) == FALSE

\* the test of the flag returned by the base class
ReturnsEarly(b) == b.ret

\* gsConjugateGradient::initIteration(rhs, x) returning ret, or left by the
\* rejection thrown in the base class (ret is then FALSE)
initIteration(rhsArg, xArg, ret) ==
    \E tr \in { TraceInit }, b \in { Base_initIteration(rhsArg, xArg) } :
       /\ m_delta' = tr.m_delta
       /\ m_gamma' = tr.m_gamma
       /\ x' = b.x
       /\ IF b.thrown
          THEN /\ ret = FALSE
               /\ matApplies' = 0
               /\ precApplies' = 0
               /\ UNCHANGED << m_rhs_norm, m_num_iter, m_tmp, m_update, m_res,
                               m_error, m_abs_new >>
          ELSE IF ReturnsEarly(b)
          THEN /\ ret = TRUE
               /\ m_rhs_norm' = b.m_rhs_norm
               /\ m_num_iter' = b.m_num_iter
               /\ m_error' = b.m_error
               /\ matApplies' = 0
               /\ precApplies' = 0
               /\ UNCHANGED << m_tmp, m_update, m_res, m_abs_new >>
          ELSE \E tmp1 \in { Apply(m_mat, b.x) } :
               \E res1 \in { VecSub(rhsArg, tmp1) } :
               \E err1 \in { RootDiv(VecNorm(res1), b.m_rhs_norm) } :
                  /\ m_rhs_norm' = b.m_rhs_norm
                  /\ m_num_iter' = b.m_num_iter
                  /\ m_tmp' = tmp1
                  /\ m_res' = res1
                  /\ m_error' = err1
                  /\ matApplies' = 1
                  /\ IF ErrorBelowTol(err1)
                     THEN /\ ret = TRUE
                          /\ m_update' = Resize(m_update, Len(m_mat[1]))
                          /\ precApplies' = 0
                          /\ UNCHANGED m_abs_new
                     ELSE \E update1 \in { PrecondApply(m_precond, res1) } :
                             /\ ret = FALSE
                             /\ m_update' = update1
                             /\ m_abs_new' = Dot(res1, update1)
                             /\ precApplies' = 1

\* the denominator of alpha in step: update . (A update)
StepDenom == Dot(m_update, Apply(m_mat, m_update))

\* a step three times as long as the one the recurrence takes
StepAlpha_long == Mul(R(3), Div(m_abs_new, StepDenom))

\* a step half as long as the one the recurrence takes
StepAlpha_half == Mul(<< 1, 2 >>, Div(m_abs_new, StepDenom))

\* the amount travelled along the search direction
StepAlpha == Div(m_abs_new, StepDenom)

\* no conjugation: the new direction is the preconditioned residual alone
StepBeta_zero(abs_new, abs_old) == Zero

\* the weight of the previous search direction in the new one
StepBeta(abs_new, abs_old) == Div(abs_new, abs_old)

\* the value pushed back as a new entry instead of added to the last one
AddToBack_appended(seq, v) == Append(seq, v)

\* alpha added to the last entry where 1/alpha is meant
AddToBack_inverse(seq, v) == [seq EXCEPT ![Len(seq)] = Add(seq[Len(seq)], Inv(v))]

\* m_delta.back() += v
AddToBack(seq, v) == [seq EXCEPT ![Len(seq)] = Add(seq[Len(seq)], v)]

\* gsConjugateGradient::step(x) returning ret
step(xArg, ret) ==
    \E tmp1 \in { Apply(m_mat, m_update) } :
    \E alpha \in { StepAlpha } :
    \E delta1 \in { IF m_calcEigenvals
                    THEN AddToBack(m_delta, Div(One, alpha))
                    ELSE m_delta } :
    \E res1 \in { VecSub(m_res, Scale(alpha, tmp1)) } :
    \E err1 \in { RootDiv(VecNorm(res1), m_rhs_norm) } :
       /\ x' = VecAdd(xArg, Scale(alpha, m_update))
       /\ m_res' = res1
       /\ m_error' = err1
       /\ matApplies' = matApplies + 1
       /\ IF ErrorBelowTol(err1)
          THEN /\ ret = TRUE
               /\ m_tmp' = tmp1
               /\ m_delta' = delta1
               /\ UNCHANGED << m_update, m_abs_new, m_gamma, precApplies >>
          ELSE \E tmp2 \in { PrecondApply(m_precond, res1) } :
               \E abs_old \in { m_abs_new } :
               \E abs_new \in { Dot(res1, tmp2) } :
               \E beta \in { StepBeta(abs_new, abs_old) } :
                  /\ ret = FALSE
                  /\ m_tmp' = tmp2
                  /\ precApplies' = precApplies + 1
                  /\ m_abs_new' = abs_new
                  /\ m_update' = VecAdd(tmp2, Scale(beta, m_update))
                  /\ IF m_calcEigenvals
                     THEN /\ m_gamma' = Append(m_gamma, NegSqrtOver(beta, alpha))
                          /\ m_delta' = Append(delta1, Div(beta, alpha))
                     ELSE /\ m_gamma' = m_gamma
                          /\ m_delta' = delta1

\* gsConjugateGradient::initIteration(rhs, x) on the solver whose members
\* are the record s: the members it leaves, the value it returns, and
\* whether it was left by the rejection of the base class
initIterationOn(s, rhsArg, xArg) ==
    LET b == Base_initIteration(rhsArg, xArg)
        s0 == IF m_calcEigenvals
              THEN [s EXCEPT !.m_delta = << Zero >>, !.m_gamma = << >>]
              ELSE s
    IN  IF b.thrown
        THEN [thrown |-> TRUE, ret |-> FALSE, s |-> [s0 EXCEPT !.x = xArg]]
        ELSE IF ReturnsEarly(b)
        THEN [thrown |-> FALSE, ret |-> TRUE,
              s |-> [s0 EXCEPT !.x = b.x, !.m_rhs_norm = b.m_rhs_norm,
                               !.m_num_iter = b.m_num_iter,
                               !.m_error = b.m_error]]
        ELSE
        LET tmp1 == Apply(m_mat, b.x)
            res1 == VecSub(rhsArg, tmp1)
            err1 == RootDiv(VecNorm(res1), b.m_rhs_norm)
            s1 == [s0 EXCEPT !.x = b.x, !.m_rhs_norm = b.m_rhs_norm,
                             !.m_num_iter = b.m_num_iter, !.m_tmp = tmp1,
                             !.m_res = res1, !.m_error = err1]
        IN  IF ErrorBelowTol(err1)
            THEN [thrown |-> FALSE, ret |-> TRUE,
                  s |-> [s1 EXCEPT
                            !.m_update = Resize(s.m_update, Len(m_mat[1]))]]
            ELSE
            LET update1 == PrecondApply(m_precond, res1)
            IN  [thrown |-> FALSE, ret |-> FALSE,
                 s |-> [s1 EXCEPT !.m_update = update1,
                                  !.m_abs_new = Dot(res1, update1)]]

\* gsConjugateGradient::step(x) on the solver whose members are the record
\* s, x being s.x: the members it leaves and the value it returns
stepOn(s) ==
    LET tmp1 == Apply(m_mat, s.m_update)
        alpha == Div(s.m_abs_new, Dot(s.m_update, tmp1))
        delta1 == IF m_calcEigenvals
                  THEN AddToBack(s.m_delta, Div(One, alpha))
                  ELSE s.m_delta
        res1 == VecSub(s.m_res, Scale(alpha, tmp1))
        err1 == RootDiv(VecNorm(res1), s.m_rhs_norm)
        s1 == [s EXCEPT !.x = VecAdd(s.x, Scale(alpha, s.m_update)),
                        !.m_res = res1, !.m_error = err1,
                        !.m_tmp = tmp1, !.m_delta = delta1]
    IN  IF ErrorBelowTol(err1) THEN [ret |-> TRUE, s |-> s1]
        ELSE
        LET tmp2 == PrecondApply(m_precond, res1)
            abs_old == s.m_abs_new
            abs_new == Dot(res1, tmp2)
            beta == StepBeta(abs_new, abs_old)
        IN  [ret |-> FALSE,
             s |-> [s1 EXCEPT
                      !.m_tmp = tmp2,
                      !.m_abs_new = abs_new,
                      !.m_update = VecAdd(tmp2, Scale(beta, s.m_update)),
                      !.m_gamma = IF m_calcEigenvals
                                  THEN Append(s.m_gamma,
                                              NegSqrtOver(beta, alpha))
                                  ELSE s.m_gamma,
                      !.m_delta = IF m_calcEigenvals
                                  THEN Append(delta1, Div(beta, alpha))
                                  ELSE delta1]]

\* gsLanczosMatrix(gamma, delta): the symmetric tridiagonal matrix with
\* diagonal delta and off-diagonal gamma
LanczosMatrix(gamma, delta) == [diag |-> delta, off |-> gamma]

\* the eigenvalues of a Lanczos matrix in ascending order: the entry itself
\* for a 1x1 matrix, otherwise the i-th smallest eigenvalue kept symbolic
Eigenvalues(L) ==
    IF Len(L.diag) = 1 THEN << L.diag[1] >>
    ELSE [i \in 1..Len(L.diag) |-> [eig |-> i, of |-> L]]

\* maxEigenvalue() / minEigenvalue()
EigenvalueRatio(L) ==
    IF Len(L.diag) = 1 THEN Div(L.diag[1], L.diag[1])
    ELSE [ratio |-> "max/min", of |-> L]

\* gsConjugateGradient::getConditionNumber()
getConditionNumber ==
    IF m_delta = << >>
    THEN [op |-> "getConditionNumber", warned |-> TRUE, value |-> MinusOne]
    ELSE [op |-> "getConditionNumber", warned |-> FALSE,
          value |-> EigenvalueRatio(LanczosMatrix(m_gamma, m_delta))]

\* gsConjugateGradient::getEigenvalues(eigs); eigs is the caller's matrix
getEigenvalues(eigs) ==
    IF m_delta = << >>
    THEN [op |-> "getEigenvalues", warned |-> TRUE, value |-> << >>]
    ELSE [op |-> "getEigenvalues", warned |-> FALSE,
          value |-> Eigenvalues(LanczosMatrix(m_gamma, m_delta))]

\* ------------------------------------------------------------------ actions
\* the state of solve() once initIteration has returned ret
StateAfterInit(ret) == IF ret THEN "Converged" ELSE "Iterating"

\* the loop of solve() running one pass too many
StateAfterStep_late(ret, iter) ==
    IF ret THEN "Converged"
    ELSE IF iter <= m_max_iters THEN "Iterating"
    ELSE "Exhausted"

\* the state of solve() once the step counted as number iter has returned ret
StateAfterStep(ret, iter) ==
    IF ret THEN "Converged"
    ELSE IF iter < m_max_iters THEN "Iterating"
    ELSE "Exhausted"

\* the initial preconditioned inner product is negative or not a number
InitBreakdown == Lt(m_abs_new', Zero) \/ IsNaN(m_abs_new')

\* the step divides by a zero denominator: update . (A update) = 0, or the
\* previous inner product is zero where beta is formed
StepBreakdown(ret) == StepDenom = Zero \/ (~ret /\ m_abs_new = Zero)

\* solve(rhs, x) up to the end of initIteration, or up to the rejection of
\* its arguments
Solve(rhsArg, x0) ==
    /\ state # "Iterating"
    /\ solves < MaxSolves
    /\ \E ret \in BOOLEAN :
          /\ initIteration(rhsArg, x0, ret)
          /\ state' = IF DimensionsAgree(rhsArg, x0)
                      THEN StateAfterInit(ret)
                      ELSE "Rejected"
          /\ breakdown' = IF DimensionsAgree(rhsArg, x0) /\ ~ret /\ InitBreakdown
                          THEN [seen |-> TRUE, x |-> x',
                                applies |-> matApplies' + precApplies']
                          ELSE NoBreakdown
    /\ rhs' = rhsArg
    /\ solves' = solves + 1
    /\ result' = NoResult
    /\ UNCHANGED config

\* one pass of the loop of solve(): step(x), count it, leave the loop when
\* the step reports convergence or the cap is reached
Step ==
    /\ state = "Iterating"
    /\ m_num_iter < m_max_iters
    /\ \E ret \in BOOLEAN :
          /\ step(x, ret)
          /\ state' = StateAfterStep(ret, m_num_iter + 1)
          /\ breakdown' =
                IF breakdown.seen \/ ~StepBreakdown(ret) THEN breakdown
                ELSE IF StepDenom = Zero
                THEN [seen |-> TRUE, x |-> x,
                      applies |-> matApplies + 1 + precApplies]
                ELSE [seen |-> TRUE, x |-> x',
                      applies |-> matApplies + 1 + precApplies + 1]
    /\ m_num_iter' = m_num_iter + 1
    /\ UNCHANGED << config, m_rhs_norm, rhs, solves, result >>

\* a getConditionNumber() that consumes the trace it reads
GetConditionNumber_consuming ==
    /\ state # "Iterating"
    /\ result' = getConditionNumber
    /\ m_delta' = << >>
    /\ m_gamma' = << >>
    /\ UNCHANGED << config, m_num_iter, m_rhs_norm, m_error, m_abs_new, m_res,
                    m_update, m_tmp, state, rhs, x,
                    matApplies, precApplies, solves, breakdown >>

\* a call of getConditionNumber() between solves
GetConditionNumber ==
    /\ state # "Iterating"
    /\ result' = getConditionNumber
    /\ UNCHANGED << config, m_num_iter, m_rhs_norm, m_error, m_abs_new, m_res,
                    m_update, m_tmp, m_delta, m_gamma, state, rhs, x,
                    matApplies, precApplies, solves, breakdown >>

\* a call of getEigenvalues(eigs) between solves, on an empty or a filled eigs
GetEigenvalues ==
    /\ state # "Iterating"
    /\ \E eigs \in { << >>, << One >> } : result' = getEigenvalues(eigs)
    /\ UNCHANGED << config, m_num_iter, m_rhs_norm, m_error, m_abs_new, m_res,
                    m_update, m_tmp, m_delta, m_gamma, state, rhs, x,
                    matApplies, precApplies, solves, breakdown >>

Next ==
    \/ \E rhsArg \in Vectors(Len(m_mat[1])), x0 \in Guesses(Len(m_mat[1])) :
          Solve(rhsArg, x0) /\ UNCHANGED << fresh, peer, elsewhere >>
    \/ \E args \in MismatchedInputs(Len(m_mat[1])) :
          Solve(args[1], args[2]) /\ UNCHANGED << fresh, peer, elsewhere >>
    \/ Step /\ UNCHANGED << fresh, peer, elsewhere >>
    \/ GetConditionNumber /\ UNCHANGED << fresh, peer, elsewhere >>
    \/ GetEigenvalues /\ UNCHANGED << fresh, peer, elsewhere >>

Spec == Init /\ [][Next]_vars

\* ------------------------------------------- a reused and a fresh instance
\* solve(rhs, x) up to the end of initIteration on a solver that has just
\* been constructed
FreshSolve(rhsArg, x0) ==
    LET r == initIterationOn(FreshMembers, rhsArg, x0)
    IN  [r.s EXCEPT !.state = IF r.thrown THEN "Rejected"
                              ELSE StateAfterInit(r.ret)]

\* one pass of the loop of solve() on the solver whose members are f
FreshStep(f) ==
    LET r == stepOn(f)
    IN  [r.s EXCEPT !.state = StateAfterStep(r.ret, f.m_num_iter + 1),
                    !.m_num_iter = f.m_num_iter + 1]

\* instances that record the spectrum and have the larger iteration cap
FreshInit == Init /\ m_calcEigenvals /\ m_max_iters = MaxIters

\* every solve() made on the instance is also made on a solver constructed
\* for that call alone
FreshNext ==
    \/ \E rhsArg \in Vectors(Len(m_mat[1])), x0 \in Guesses(Len(m_mat[1])) :
          Solve(rhsArg, x0) /\ fresh' = FreshSolve(rhsArg, x0)
             /\ UNCHANGED << peer, elsewhere >>
    \/ \E args \in MismatchedInputs(Len(m_mat[1])) :
          Solve(args[1], args[2]) /\ fresh' = FreshSolve(args[1], args[2])
             /\ UNCHANGED << peer, elsewhere >>
    \/ Step /\ fresh' = FreshStep(fresh) /\ UNCHANGED << peer, elsewhere >>
    \/ GetConditionNumber /\ UNCHANGED << fresh, peer, elsewhere >>
    \/ GetEigenvalues /\ UNCHANGED << fresh, peer, elsewhere >>

FreshSpec == FreshInit /\ [][FreshNext]_vars

\* ------------------------------------------------- two concurrent instances
\* the variables of the first instance and of its solve
Instance ==
    << config, m_num_iter, m_rhs_norm, m_error, m_abs_new, m_res, m_update,
       m_tmp, m_delta, m_gamma, state, rhs, x, matApplies, precApplies,
       solves, breakdown, result, fresh >>

\* solve(rhs, x) up to the end of initIteration on the second instance
PeerSolve(rhsArg, x0) ==
    /\ peer.state # "Iterating"
    /\ solves + peer.solves < MaxSolves
    /\ LET r == initIterationOn(peer, rhsArg, x0)
       IN  peer' = [r.s EXCEPT !.state = StateAfterInit(r.ret),
                               !.rhs = rhsArg, !.x0 = x0,
                               !.solves = peer.solves + 1]
    /\ UNCHANGED << Instance, elsewhere >>

\* a pass of the loop of the second instance that works in the search
\* direction of the first, as if m_update were shared by the instances
PeerStep_sharedUpdate ==
    /\ peer.state = "Iterating"
    /\ peer.m_num_iter < m_max_iters
    /\ peer' = FreshStep(peer)
    /\ m_update' = peer'.m_update
    /\ UNCHANGED << config, m_num_iter, m_rhs_norm, m_error, m_abs_new, m_res,
                    m_tmp, m_delta, m_gamma, state, rhs, x, matApplies,
                    precApplies, solves, breakdown, result, fresh,
                    elsewhere >>

\* one pass of the loop of solve() on the second instance: step works on
\* the members of its own instance
PeerStep ==
    /\ peer.state = "Iterating"
    /\ peer.m_num_iter < m_max_iters
    /\ peer' = FreshStep(peer)
    /\ UNCHANGED << Instance, elsewhere >>

\* both instances record the spectrum, have the larger iteration cap and
\* the smaller tolerance
ConcInit ==
    Init /\ m_calcEigenvals /\ m_max_iters = MaxIters /\ m_tol = << 1, 10 >>

\* the solves and the passes of the two instances in any order, every
\* solve starting from the zero guess
ConcNext ==
    \/ \E rhsArg \in Vectors(Len(m_mat[1])) :
          /\ solves + peer.solves < MaxSolves
          /\ Solve(rhsArg, ZeroVec(Len(m_mat[1])))
          /\ fresh' = FreshSolve(rhsArg, ZeroVec(Len(m_mat[1])))
          /\ UNCHANGED << peer, elsewhere >>
    \/ Step /\ fresh' = FreshStep(fresh) /\ UNCHANGED << peer, elsewhere >>
    \/ \E rhsArg \in Vectors(Len(m_mat[1])) :
          PeerSolve(rhsArg, ZeroVec(Len(m_mat[1])))
    \/ PeerStep

ConcSpec == ConcInit /\ [][ConcNext]_vars

\* a constructed solver that is never used, for the specifications of the
\* other components
SolverIdle ==
    /\ m_mat = << << 2 >> >>
    /\ m_precond = << << 1 >> >>
    /\ m_tol = One
    /\ m_max_iters = 1
    /\ m_calcEigenvals = FALSE
    /\ MembersInit
    /\ m_error = Sqrt(NaN)
    /\ construction = "Built"

\* ----------------------------------------------------------- construction
\* tolerances and iteration caps a caller may ask for
RequestedTolerances == { << -1, 10 >>, Zero, << 1, 10 >>, One }

RequestedCaps == { -1, 0, 1, MaxIters }

\* a constructor that accepts every configuration
ConfigurationValid_unchecked(tol, maxIters) == TRUE

\* the configuration the constructor accepts: a positive tolerance and a
\* positive iteration cap
ConfigurationValid(tol, maxIters) == Lt(Zero, tol) /\ maxIters >= 1

\* the constructor: a ConfigurationError for a configuration that is not
\* valid, a solver otherwise
Construct ==
    /\ construction = "Requested"
    /\ construction' = IF ConfigurationValid(m_tol, m_max_iters)
                       THEN "Built" ELSE "ConfigurationError"
    /\ UNCHANGED << Instance, peer, mpiVars, boxVars, xmlVars >>

\* a constructor call with any of the requested tolerances and caps, for an
\* untracked solver with the identity preconditioner
ConstructInit ==
    /\ m_mat \in Operators
    /\ m_precond \in Preconditioners
    /\ Len(m_precond) = Len(m_mat)
    /\ IsIdentity(m_precond)
    /\ m_tol \in RequestedTolerances
    /\ m_max_iters \in RequestedCaps
    /\ m_calcEigenvals = FALSE
    /\ MembersInit
    /\ construction = "Requested"
    /\ MpiIdle
    /\ BoxIdle
    /\ XmlIdle

\* the constructor call, then solves on the solver it returned
ConstructNext ==
    \/ Construct
    \/ \E rhsArg \in Vectors(Len(m_mat[1])), x0 \in Guesses(Len(m_mat[1])) :
          /\ construction = "Built"
          /\ Solve(rhsArg, x0)
          /\ UNCHANGED << fresh, peer, elsewhere >>
    \/ /\ construction = "Built"
       /\ Step
       /\ UNCHANGED << fresh, peer, elsewhere >>

ConstructSpec == ConstructInit /\ [][ConstructNext]_vars

\* ------------------------------------------------------- gsSerialComm, MPI
\* C arrays are functions on 0..(n - 1)
Array(n, S) == [0..(n - 1) -> S]

\* gsSerialComm::gatherv(in, sendlen, out, recvlen, displ, root): the
\* contents of out when it returns
gatherv(in, sendlen, out, recvlen, displ, root) ==
    [i \in DOMAIN out |->
        IF displ[0] <= i /\ i < sendlen THEN in[i] ELSE out[i]]

\* gsSerialComm::allgatherv(in, sendlen, out, recvlen, displ)
allgatherv(in, sendlen, out, recvlen, displ) ==
    [i \in DOMAIN out |->
        IF displ[0] <= i /\ i < sendlen THEN in[i] ELSE out[i]]

\* MPI_Gatherv on a communicator of one process, as gsMpiComm::gatherv calls
\* it: the recvlen[0] elements of in are stored from out + displ[0] on
MPI_Gatherv(in, sendlen, out, recvlen, displ, root) ==
    [i \in DOMAIN out |->
        IF displ[0] <= i /\ i < displ[0] + recvlen[0]
        THEN in[i - displ[0]] ELSE out[i]]

\* the arguments of a call on a one-process communicator: a send buffer of
\* non-zero values, a zeroed receive buffer with room for the data at its
\* offset
GatherInit ==
    /\ SolverIdle
    /\ BoxIdle
    /\ XmlIdle
    /\ comm = [name |-> "gsSerialComm", size |-> 1]
    /\ pc = << >>
    /\ gsInfo = << >>
    /\ \E in \in Array(MaxSend, { 1, 2 }), sendlen \in 0..MaxSend,
          d \in 0..MaxDispl :
          buffers = [called |-> "none", in |-> in, sendlen |-> sendlen,
                     out |-> [i \in 0..(d + MaxSend - 1) |-> 0],
                     recvlen |-> [i \in { 0 } |-> sendlen],
                     displ |-> [i \in { 0 } |-> d], root |-> 0]

\* a call of gsSerialComm::gatherv
SerialGatherv ==
    /\ buffers.called = "none"
    /\ buffers' =
          [buffers EXCEPT
              !.called = "gsSerialComm::gatherv",
              !.out = gatherv(buffers.in, buffers.sendlen, buffers.out,
                              buffers.recvlen, buffers.displ, buffers.root)]
    /\ UNCHANGED << Instance, peer, construction, comm, pc, gsInfo, boxVars,
                    xmlVars >>

\* a call of gsSerialComm::allgatherv
SerialAllgatherv ==
    /\ buffers.called = "none"
    /\ buffers' =
          [buffers EXCEPT
              !.called = "gsSerialComm::allgatherv",
              !.out = allgatherv(buffers.in, buffers.sendlen, buffers.out,
                                 buffers.recvlen, buffers.displ)]
    /\ UNCHANGED << Instance, peer, construction, comm, pc, gsInfo, boxVars,
                    xmlVars >>

\* a call of gsMpiComm::gatherv on a communicator of one process
MpiGatherv ==
    /\ buffers.called = "none"
    /\ buffers' =
          [buffers EXCEPT
              !.called = "gsMpiComm::gatherv",
              !.out = MPI_Gatherv(buffers.in, buffers.sendlen, buffers.out,
                                  buffers.recvlen, buffers.displ,
                                  buffers.root)]
    /\ UNCHANGED << Instance, peer, construction, comm, pc, gsInfo, boxVars,
                    xmlVars >>

GatherNext == SerialGatherv \/ SerialAllgatherv \/ MpiGatherv

GatherSpec == GatherInit /\ [][GatherNext]_vars

\* ------------------------------------------------------------ tutorialMpi
\* the places of main a process passes, in order: the three messages, the
\* two barrier calls before they are entered and while the process is in them
Places ==
    << "Running", "Barrier1", "InBarrier1", "Initialized", "Barrier2",
       "InBarrier2", "Hello", "Done" >>

\* the position of a place in main
Position(place) == CHOOSE i \in 1..Len(Places) : Places[i] = place

\* the processes of the communicator, by rank
Ranks == 0..(comm.size - 1)

\* a barrier that lets every caller through at once
BarrierComplete_serial(place) == TRUE

\* barrier() may return to a process that is at place: gsSerialComm::barrier
\* returns at once; MPI_Barrier, called by gsMpiComm::barrier, returns once
\* every process of the communicator has entered the call
BarrierComplete(place) ==
    \/ comm.name = "gsSerialComm"
    \/ \A q \in Ranks : Position(pc[q]) >= Position(place)

\* lines 48-49: rank 0 writes the number of processes
Running(p) ==
    /\ pc[p] = "Running"
    /\ gsInfo' = IF p = 0
                 THEN Append(gsInfo, [text |-> "Running on", size |-> comm.size])
                 ELSE gsInfo
    /\ pc' = [pc EXCEPT ![p] = "Barrier1"]
    /\ UNCHANGED << Instance, peer, construction, buffers, comm, boxVars,
                    xmlVars >>

\* lines 50 and 54: the process enters comm.barrier()
EnterBarrier(p) ==
    /\ pc[p] \in { "Barrier1", "Barrier2" }
    /\ pc' = [pc EXCEPT ![p] = Places[Position(pc[p]) + 1]]
    /\ UNCHANGED << Instance, peer, construction, buffers, comm, gsInfo,
                    boxVars, xmlVars >>

\* lines 50 and 54: comm.barrier() returns
LeaveBarrier(p) ==
    /\ pc[p] \in { "InBarrier1", "InBarrier2" }
    /\ BarrierComplete(pc[p])
    /\ pc' = [pc EXCEPT ![p] = Places[Position(pc[p]) + 1]]
    /\ UNCHANGED << Instance, peer, construction, buffers, comm, gsInfo,
                    boxVars, xmlVars >>

\* lines 52-53: every process writes that MPI is initialized
Initialized(p) ==
    /\ pc[p] = "Initialized"
    /\ gsInfo' = Append(gsInfo, [text |-> "MPI is initialized", rank |-> p])
    /\ pc' = [pc EXCEPT ![p] = "Barrier2"]
    /\ UNCHANGED << Instance, peer, construction, buffers, comm, boxVars,
                    xmlVars >>

\* lines 56-62: every process writes its greeting and returns
Hello(p) ==
    /\ pc[p] = "Hello"
    /\ gsInfo' = Append(gsInfo, [text |-> "Hello G+Smo", rank |-> p])
    /\ pc' = [pc EXCEPT ![p] = "Done"]
    /\ UNCHANGED << Instance, peer, construction, buffers, comm, boxVars,
                    xmlVars >>

\* the tutorial started without MPI on one process or with MPI on up to
\* NProcs processes; every process is at the start of main
TutorialInit ==
    /\ SolverIdle
    /\ BoxIdle
    /\ XmlIdle
    /\ buffers = [called |-> "none"]
    /\ comm \in { [name |-> "gsSerialComm", size |-> 1] }
                 \cup { [name |-> "gsMpiComm", size |-> n] : n \in 1..NProcs }
    /\ pc = [p \in Ranks |-> "Running"]
    /\ gsInfo = << >>

TutorialNext ==
    \E p \in Ranks :
       \/ Running(p)
       \/ EnterBarrier(p)
       \/ LeaveBarrier(p)
       \/ Initialized(p)
       \/ Hello(p)

TutorialSpec == TutorialInit /\ [][TutorialNext]_vars

\* ---------------------------------------------------------- gsBoxTopology
\* dimensions a caller passes to setDim
Dims == { -1, 1, 2 }

\* gsBoxTopology(d, n)
gsBoxTopology(d, n) ==
    [m_dim |-> d, nboxes |-> n, m_boundary |-> << >>, m_interfaces |-> << >>]

patchSide(p, s) == [patch |-> p, side |-> s]

boundaryInterface(ps1, ps2, d) == [first |-> ps1, second |-> ps2, dim |-> d]

\* a build without assertions: setDim accepts every value
SetDimAssertion_none(t, i) == TRUE

\* GISMO_ASSERT(m_dim==-1 || i==m_dim, "Changing box dimension.")
SetDimAssertion(t, i) == t.m_dim = -1 \/ i = t.m_dim

setDim(t, i) == [t EXCEPT !.m_dim = i]

addBox(t, i) == [t EXCEPT !.nboxes = t.nboxes + i]

addInterface(t, p1, s1, p2, s2) ==
    [t EXCEPT !.m_interfaces =
        Append(t.m_interfaces,
               boundaryInterface(patchSide(p1, s1), patchSide(p2, s2), t.m_dim))]

addBoundary(t, p, s) ==
    [t EXCEPT !.m_boundary = Append(t.m_boundary, patchSide(p, s))]

clearTopology(t) == [t EXCEPT !.m_boundary = << >>, !.m_interfaces = << >>]

clearAll(t) == [clearTopology(t) EXCEPT !.m_dim = -1, !.nboxes = 0]

\* a call of setDim(i) whose assertion holds
SetDim(i) ==
    /\ SetDimAssertion(topology, i)
    /\ topology' = setDim(topology, i)
    /\ firstDim' = IF firstDim = -1 THEN i ELSE firstDim
    /\ UNCHANGED << Instance, peer, construction, mpiVars, other, xmlVars >>

AddBox(i) ==
    /\ topology.nboxes + i <= MaxBoxes
    /\ topology' = addBox(topology, i)
    /\ UNCHANGED << Instance, peer, construction, mpiVars, other, firstDim,
                    xmlVars >>

AddInterface(p1, s1, p2, s2) ==
    /\ Len(topology.m_interfaces) < MaxSides
    /\ topology' = addInterface(topology, p1, s1, p2, s2)
    /\ UNCHANGED << Instance, peer, construction, mpiVars, other, firstDim,
                    xmlVars >>

AddBoundary(p, s) ==
    /\ Len(topology.m_boundary) < MaxSides
    /\ topology' = addBoundary(topology, p, s)
    /\ UNCHANGED << Instance, peer, construction, mpiVars, other, firstDim,
                    xmlVars >>

ClearTopology ==
    /\ topology' = clearTopology(topology)
    /\ UNCHANGED << Instance, peer, construction, mpiVars, other, firstDim,
                    xmlVars >>

ClearAll ==
    /\ topology' = clearAll(topology)
    /\ firstDim' = -1
    /\ UNCHANGED << Instance, peer, construction, mpiVars, other, xmlVars >>

\* swap(other): the members of the two topologies change places
Swap ==
    /\ topology' = other
    /\ other' = topology
    /\ firstDim' = other.m_dim
    /\ UNCHANGED << Instance, peer, construction, mpiVars, xmlVars >>

\* a topology constructed without or with a dimension and a box, and a
\* second one of dimension 2 to swap with
BoxInit ==
    /\ SolverIdle
    /\ MpiIdle
    /\ XmlIdle
    /\ topology \in { gsBoxTopology(-1, 0), gsBoxTopology(1, 1) }
    /\ other = gsBoxTopology(2, 1)
    /\ firstDim = topology.m_dim

BoxNext ==
    \/ \E i \in Dims : SetDim(i)
    \/ AddBox(1)
    \/ AddInterface(0, 2, 1, 1)
    \/ AddBoundary(0, 1)
    \/ ClearTopology
    \/ ClearAll
    \/ Swap

BoxSpec == BoxInit /\ [][BoxNext]_vars

\* ------------------------------------------------------------------ gsXml
Digit == << "0", "1", "2", "3", "4", "5", "6", "7", "8", "9" >>

Whitespace == { " ", "\n" }

RECURSIVE Pow10(_)
Pow10(k) == IF k = 0 THEN 1 ELSE 10 * Pow10(k - 1)

\* str << n for a non-negative integer: its decimal digits
RECURSIVE InsertDigits(_)
InsertDigits(n) ==
    IF n < 10 THEN << Digit[n + 1] >>
              ELSE InsertDigits(n \div 10) \o << Digit[(n % 10) + 1] >>

\* the digits after the decimal point of rem/d, for a d that divides a
\* power of ten
RECURSIVE InsertFraction(_, _)
InsertFraction(rem, d) ==
    IF rem = 0 THEN << >>
    ELSE << Digit[((rem * 10) \div d) + 1] >>
             \o InsertFraction((rem * 10) % d, d)

\* str << i for an index_t
InsertIndex(i) ==
    IF i < 0 THEN << "-" >> \o InsertDigits(-i) ELSE InsertDigits(i)

\* str << v for a real value: "inf", "-inf" and "nan" for the values that
\* are not finite, otherwise sign, integer part and, when there is one,
\* the fraction
InsertValue(v) ==
    IF v = NaN THEN << "n", "a", "n" >>
    ELSE IF v = PosInf THEN << "i", "n", "f" >>
    ELSE IF v = NegInf THEN << "-", "i", "n", "f" >>
    ELSE LET a == Abs(v[1])
             whole == InsertDigits(a \div v[2])
             frac == InsertFraction(a % v[2], v[2])
         IN  (IF v[1] < 0 THEN << "-" >> ELSE << >>)
                \o whole
                \o (IF frac = << >> THEN << >> ELSE << "." >> \o frac)

\* the stream skips leading whitespace before it extracts a number
RECURSIVE SkipWhitespace(_, _)
SkipWhitespace(text, pos) ==
    IF pos <= Len(text) /\ text[pos] \in Whitespace
    THEN SkipWhitespace(text, pos + 1)
    ELSE pos

\* the digits from pos on: their value, their number and where they end
RECURSIVE ExtractDigits(_, _, _, _)
ExtractDigits(text, pos, acc, count) ==
    IF pos <= Len(text) /\ \E k \in 1..10 : Digit[k] = text[pos]
    THEN ExtractDigits(text, pos + 1,
                       10 * acc + (CHOOSE k \in 1..10 : Digit[k] = text[pos]) - 1,
                       count + 1)
    ELSE [value |-> acc, count |-> count, pos |-> pos]

\* where the number starts, and its sign
ExtractSign(text, pos) ==
    LET p == SkipWhitespace(text, pos)
    IN  IF p <= Len(text) /\ text[p] \in { "-", "+" }
        THEN [sign |-> IF text[p] = "-" THEN -1 ELSE 1, pos |-> p + 1]
        ELSE [sign |-> 1, pos |-> p]

\* str >> r for an index_t: fails where no digit follows
ExtractIndex(text, pos) ==
    LET s == ExtractSign(text, pos)
        d == ExtractDigits(text, s.pos, 0, 0)
    IN  [ok |-> d.count > 0, value |-> s.sign * d.value, pos |-> d.pos]

\* str >> val for a real value: digits, and a fraction after a point;
\* fails where neither is found, as for the texts "inf" and "nan"
ExtractValue(text, pos) ==
    LET s == ExtractSign(text, pos)
        whole == ExtractDigits(text, s.pos, 0, 0)
        point == whole.pos <= Len(text) /\ text[whole.pos] = "."
        frac == IF point THEN ExtractDigits(text, whole.pos + 1, 0, 0)
                         ELSE [value |-> 0, count |-> 0, pos |-> whole.pos]
    IN  [ok |-> whole.count + frac.count > 0,
         value |-> Norm(s.sign * (whole.value * Pow10(frac.count) + frac.value),
                        Pow10(frac.count)),
         pos |-> frac.pos]

\* while( (str >> r) && (str >> c) && (str >> val) ) result.add(r,c,val);
RECURSIVE ExtractTriplets(_, _, _)
ExtractTriplets(text, pos, held) ==
    LET r == ExtractIndex(text, pos)
        c == ExtractIndex(text, r.pos)
        val == ExtractValue(text, c.pos)
    IN  IF r.ok /\ c.ok /\ val.ok
        THEN ExtractTriplets(text, val.pos,
                             Append(held, << r.value, c.value, val.value >>))
        ELSE held

\* getSparseEntriesFromXml(node, result): result.clear(), then the loop
getSparseEntriesFromXml(n, held) == ExtractTriplets(n.value, 1, << >>)

\* cIter it(mat,j): the entries column j stores, by ascending row, from
\* row i on
RECURSIVE InnerIterator(_, _, _)
InnerIterator(m, j, i) ==
    IF i >= m.rows THEN << >>
    ELSE (IF << i, j >> \in DOMAIN m.stored
          THEN << [index |-> i, value |-> m.stored[<< i, j >>]] >>
          ELSE << >>) \o InnerIterator(m, j, i + 1)

\* str <<it.index() <<" "<<j<<" " << it.value() << "\n" for the entries
\* from the k-th on of a column
RECURSIVE InsertColumn(_, _, _)
InsertColumn(its, j, k) ==
    IF k > Len(its) THEN << >>
    ELSE InsertIndex(its[k].index) \o << " " >> \o InsertIndex(j) \o << " " >>
            \o InsertValue(its[k].value) \o << "\n" >>
            \o InsertColumn(its, j, k + 1)

\* for (index_t j=0; j != nCol; ++j), from column j on
RECURSIVE InsertColumns(_, _)
InsertColumns(m, j) ==
    IF j >= m.cols THEN << >>
    ELSE InsertColumn(InnerIterator(m, j, 0), j, 1) \o InsertColumns(m, j + 1)

\* putSparseMatrixToXml(mat, data, name): a node of that name and text
putSparseMatrixToXml(m, name) == [name |-> name, value |-> InsertColumns(m, 0)]

\* values a matrix stores
StoredValues == { One, << -2, 1 >>, << 1, 2 >>, << 12, 1 >>, PosInf, NaN }

\* the sparse matrices of MaxRows rows and MaxCols columns that store at
\* most MaxStored entries
SparseMatrices ==
    { [rows |-> MaxRows, cols |-> MaxCols, stored |-> st] :
        st \in UNION { [cells -> StoredValues] :
                          cells \in { c \in SUBSET ((0..(MaxRows - 1)) \X (0..(MaxCols - 1))) :
                                        Cardinality(c) <= MaxStored } } }

PutSparseMatrixToXml ==
    /\ node.name = "none"
    /\ node' = putSparseMatrixToXml(mat, "Matrix")
    /\ UNCHANGED << Instance, peer, construction, mpiVars, boxVars, mat,
                    entries >>

GetSparseEntriesFromXml ==
    /\ node.name # "none"
    /\ entries.from = "caller"
    /\ entries' = [from |-> "xml",
                   triplets |-> getSparseEntriesFromXml(node, entries.triplets)]
    /\ UNCHANGED << Instance, peer, construction, mpiVars, boxVars, mat, node >>

\* a matrix, no node yet, and a container that is empty or holds an entry
XmlInit ==
    /\ SolverIdle
    /\ MpiIdle
    /\ BoxIdle
    /\ mat \in SparseMatrices
    /\ node = [name |-> "none", value |-> << >>]
    /\ entries \in { [from |-> "caller", triplets |-> t] :
                        t \in { << >>, << << 1, 1, One >> >> } }

XmlNext ==
    \/ PutSparseMatrixToXml
    \/ GetSparseEntriesFromXml

XmlSpec == XmlInit /\ [][XmlNext]_vars

TypeOK ==
    /\ state \in { "Idle", "Iterating", "Converged", "Exhausted", "Breakdown",
                  "Rejected" }
    /\ m_num_iter \in 0..m_max_iters

\* ------------------------------------------------------------- properties
Terminal == { "Converged", "Exhausted", "Breakdown" }

\* the last solve() call was accepted: its arguments had the right sizes
Accepted == state \notin { "Idle", "Rejected" }

IsZeroVec(v) == v = ZeroVec(Len(v))

\* step() calls made so far by the current solve: each applies the operator
\* once, after the one application of initIteration
StepCalls == IF matApplies = 0 THEN 0 ELSE matApplies - 1

\* C1: an accepted solve whose right-hand side has zero norm returns the
\* zero vector, ends Converged with no iteration counted and applies neither
\* the operator nor the preconditioner
C1_ZeroRhs ==
    (Accepted /\ IsZeroVec(rhs)) =>
        /\ IsZeroVec(x)
        /\ state = "Converged"
        /\ m_num_iter = 0
        /\ matApplies = 0
        /\ precApplies = 0

\* a zero right-hand side given to a solver that holds the vectors of an
\* earlier solve which did iterate
C1_Witness ==
    /\ state = "Converged"
    /\ IsZeroVec(rhs)
    /\ solves = 2
    /\ m_res # << >>
    /\ ~IsZeroVec(m_update)

\* C2: every solve terminates: step is invoked at most m_max_iters times and
\* the count never exceeds the cap; while the solve iterates, the only thing
\* that happens is a pass of the loop, which brings the count one closer to the
\* cap, and the pass that reaches the cap leaves the solve in a terminal state
C2_Terminates ==
    /\ [](StepCalls <= m_max_iters /\ m_num_iter <= m_max_iters)
    /\ [](state = "Iterating" => m_num_iter < m_max_iters)
    /\ [][ state = "Iterating" =>
              /\ m_num_iter' = m_num_iter + 1
              /\ StepCalls' = StepCalls + 1
              /\ state' \in Terminal \cup { "Iterating" }
              /\ m_num_iter' = m_max_iters => state' \in Terminal ]_vars

\* a solve that used up the whole cap of several iterations
C2_Witness ==
    /\ state = "Exhausted"
    /\ StepCalls = m_max_iters
    /\ m_max_iters = MaxIters

\* C3: a solve that ended Converged on a non-zero right-hand side reports an
\* error below the tolerance, and a solve still iterating has not yet computed
\* an error below the tolerance
C3_ConvergedBelowTol ==
    /\ (state = "Converged" /\ ~IsZeroVec(rhs)) => RootLt(m_error, m_tol)
    /\ state = "Iterating" => ~RootLt(m_error, m_tol)

\* convergence reported by a step after an initIteration that did not converge
C3_Witness ==
    /\ state = "Converged"
    /\ ~IsZeroVec(rhs)
    /\ m_num_iter >= 2
    /\ RootLt(m_error, m_tol)

\* C4: a finished solve is Exhausted exactly when m_max_iters steps were run
\* and the last error is not below the tolerance; a solve whose last allowed
\* step reaches the tolerance is Converged
C4_ExhaustedIffCapWithoutConvergence ==
    state \in { "Converged", "Exhausted" } =>
        /\ state = "Exhausted" <=>
              /\ StepCalls = m_max_iters
              /\ ~IsZeroVec(rhs)
              /\ ~RootLt(m_error, m_tol)
        /\ (StepCalls = m_max_iters /\ RootLt(m_error, m_tol))
              => state = "Converged"

\* the tolerance reached by the very last step the cap allows
C4_Witness ==
    /\ state = "Converged"
    /\ m_max_iters >= 2
    /\ StepCalls = m_max_iters
    /\ m_num_iter = m_max_iters
    /\ RootLt(m_error, m_tol)

\* C5: a step whose denominator update . (A update) is zero reports Breakdown
\* and leaves the iterate, the residual and the trace as they were
C5_ZeroDenominatorBreakdown ==
    [][ (state = "Iterating" /\ StepDenom = Zero) =>
            /\ state' = "Breakdown"
            /\ x' = x
            /\ m_res' = m_res
            /\ m_delta' = m_delta
            /\ m_gamma' = m_gamma ]_vars

\* C6: a step that reaches the computation of beta with a zero previous inner
\* product reports Breakdown and installs no new search direction
C6_ZeroAbsOldBreakdown ==
    [][ (state = "Iterating" /\ m_abs_new = Zero /\ StepDenom # Zero
            /\ ~ErrorBelowTol(m_error')) =>
            /\ state' = "Breakdown"
            /\ m_update' = m_update ]_vars

\* C7: when initIteration computes a negative or not-a-number inner product
\* r . (M^-1 r), the solve is reported as Breakdown and no step is executed
C7_NegativeInitialProductBreakdown ==
    (state # "Idle" /\ precApplies >= 1 /\ m_num_iter = 0
        /\ (Lt(m_abs_new, Zero) \/ IsNaN(m_abs_new))) => state = "Breakdown"

\* C8: once a breakdown is met the solve stops: it ends in Breakdown, applies
\* neither the operator nor the preconditioner again and returns the iterate
\* held at that point
C8_BreakdownStopsSolve ==
    breakdown.seen =>
        /\ state = "Breakdown"
        /\ x = breakdown.x
        /\ matApplies + precApplies = breakdown.applies

\* C9: getConditionNumber returns -1 when tracking is disabled or no solve
\* has been run
C9_SentinelWithoutTracking ==
    (result.op = "getConditionNumber" /\ (~m_calcEigenvals \/ solves = 0)) =>
        result.value = MinusOne

\* the query made on a solver without tracking after a solve that iterated
C9_Witness ==
    /\ result.op = "getConditionNumber"
    /\ ~m_calcEigenvals
    /\ solves >= 1
    /\ m_num_iter >= 1
    /\ result.value = MinusOne

\* C10: with tracking enabled, after a solve that completed no iteration both
\* queries report that no spectral data is available
C10_SentinelWithoutIteration ==
    (m_calcEigenvals /\ state = "Converged" /\ m_num_iter = 0) =>
        /\ result.op = "getConditionNumber" =>
              (result.value = MinusOne /\ result.warned)
        /\ result.op = "getEigenvalues" =>
              (result.value = << >> /\ result.warned)

\* C11: with tracking enabled, once an iteration has completed the trace
\* satisfies len(delta) = len(gamma) + 1
C11_TraceLengths ==
    (m_calcEigenvals /\ state # "Idle" /\ m_num_iter >= 1) =>
        Len(m_delta) = Len(m_gamma) + 1

\* a tracked solve, the second on its instance, with two off-diagonal entries
C11_Witness ==
    /\ m_calcEigenvals
    /\ solves = 2
    /\ m_num_iter >= 2
    /\ Len(m_gamma) = 2
    /\ Len(m_delta) = 3

\* C12: the trace is cleared at the start of each solve: a tracked solve
\* starts from delta = <<0>> and gamma empty whatever the trace held before,
\* and at any time the trace holds no more entries than the steps of the
\* current solve have recorded
C12_TraceCleared ==
    /\ [][ (solves' = solves + 1 /\ m_calcEigenvals) =>
              (m_delta' = << Zero >> /\ m_gamma' = << >>) ]_vars
    /\ []((m_calcEigenvals /\ state # "Idle") =>
              /\ Len(m_gamma) <= m_num_iter
              /\ Len(m_delta) <= m_num_iter + 1
              /\ m_num_iter = 0 => m_delta = << Zero >>)

\* a tracked solve that returned from initIteration on an instance whose
\* earlier solve had iterated and so had filled the trace
C12_Witness ==
    /\ m_calcEigenvals
    /\ solves = 2
    /\ state = "Converged"
    /\ m_num_iter = 0
    /\ ~IsNaN(m_abs_new)
    /\ m_delta = << Zero >>
    /\ m_gamma = << >>

\* the members of the solver: configuration, scalars, workspace, trace
SolverState ==
    << config, m_num_iter, m_rhs_norm, m_error, m_abs_new, m_res, m_update,
       m_tmp, m_delta, m_gamma, state, x >>

\* C18: the two queries leave the solver state and the trace unchanged, and
\* a result obtained between two solves is the result every further call
\* returns until the next solve, whatever the caller's eigs container holds
C18_QueriesLeaveStateUnchanged ==
    /\ [][ (solves' = solves /\ state # "Iterating") =>
              UNCHANGED SolverState ]_vars
    /\ [](result.op = "getConditionNumber" => result = getConditionNumber)
    /\ [](result.op = "getEigenvalues" =>
              \A eigs \in { << >>, << One >> } : result = getEigenvalues(eigs))

\* the condition number read from the trace of a solve that recorded an
\* off-diagonal entry
C18_Witness ==
    /\ result.op = "getConditionNumber"
    /\ ~result.warned
    /\ Len(m_gamma) >= 1
    /\ Len(m_delta) = Len(m_gamma) + 1

\* spectral data is available: the last solve ran with tracking enabled and
\* completed at least one iteration
SpectralDataAvailable ==
    m_calcEigenvals /\ Accepted /\ m_num_iter >= 1

\* v is in ascending order: exact values by Le, the eigenvalues of one
\* Lanczos matrix by their rank
Ascending(v) ==
    \A i \in 1..(Len(v) - 1) :
        /\ v[i].of = v[i + 1].of
        /\ v[i].eig <= v[i + 1].eig

\* C19: getEigenvalues returns an ascending sequence as long as the
\* tridiagonal matrix, len(delta) = len(gamma) + 1, when spectral data is
\* available, and the empty sequence when it is not
C19_EigenvaluesShape ==
    (result.op = "getEigenvalues" /\ state # "Iterating") =>
        IF SpectralDataAvailable
        THEN /\ Len(result.value) = Len(m_delta)
             /\ Len(m_delta) = Len(m_gamma) + 1
             /\ Ascending(result.value)
        ELSE result.value = << >>

\* the determinant of the leading k x k block of A, k <= 3
LeadingMinor(A, k) ==
    IF k = 1 THEN A[1][1]
    ELSE IF k = 2 THEN A[1][1] * A[2][2] - A[1][2] * A[2][1]
    ELSE   A[1][1] * (A[2][2] * A[3][3] - A[2][3] * A[3][2])
         - A[1][2] * (A[2][1] * A[3][3] - A[2][3] * A[3][1])
         + A[1][3] * (A[2][1] * A[3][2] - A[2][2] * A[3][1])

\* A is symmetric positive definite (Sylvester's criterion)
IsSPD(A) ==
    /\ \A i, j \in DOMAIN A : A[i][j] = A[j][i]
    /\ \A k \in DOMAIN A : LeadingMinor(A, k) > 0

\* the solve in progress, or just finished, has an SPD operator and an SPD
\* preconditioner (the identity is one)
SPDInputs == Accepted /\ IsSPD(m_mat) /\ IsSPD(m_precond)

\* the solution of diag(1, 4, 9) x = (1, 2, 3)
ExampleSolution == << <<1, 1>>, <<1, 2>>, <<1, 3>> >>

\* C14: with an SPD operator of dimension n, an SPD preconditioner and an
\* iteration cap of at least n, a solve reaches Converged after at most n
\* steps; on diag(1, 4, 9) x = (1, 2, 3) with tolerance 1/10 it returns
\* (1, 1/2, 1/3)
C14_ConvergesWithinN ==
    (SPDInputs /\ m_max_iters >= Len(m_mat)) =>
        /\ state \in { "Iterating", "Converged" }
        /\ m_num_iter <= Len(m_mat)
        /\ state = "Iterating" => m_num_iter < Len(m_mat)
        /\ (/\ state = "Converged"
            /\ rhs = IntVec(ExampleRhs)
            /\ m_tol = << 1, 10 >>) => x = ExampleSolution

\* the example system solved from the zero guess in exactly three steps
C14_Witness ==
    /\ SPDInputs
    /\ rhs = IntVec(ExampleRhs)
    /\ m_max_iters = 3
    /\ state = "Converged"
    /\ m_num_iter = 3
    /\ x = ExampleSolution

TwoPhi(v) == Sub(Dot(v, Apply(m_mat, v)), Mul(R(2), Dot(rhs, v)))

RefStep(A, v, r, p, rr) ==
    LET Ap == Apply(A, p)
        alpha == Div(rr, Dot(p, Ap))
        v1 == VecAdd(v, Scale(alpha, p))
        r1 == VecSub(r, Scale(alpha, Ap))
        rr1 == Dot(r1, r1)
    IN  [x |-> v1, r |-> r1, rr |-> rr1,
         p |-> VecAdd(r1, Scale(Div(rr1, rr), p))]

\* C16: with the identity preconditioner a solve starts as the
\* unpreconditioned recurrence does (update = r = rhs - A x, absNew = r.r)
\* and each step yields the iterate, the residual, the error and the
\* convergence verdict of that recurrence, and its next direction and
\* inner product when the solve goes on
C16_IdentityIsUnpreconditioned ==
    /\ []((IsIdentity(m_precond) /\ state = "Iterating" /\ m_num_iter = 0) =>
              /\ m_res = VecSub(rhs, Apply(m_mat, x))
              /\ m_update = m_res
              /\ m_abs_new = Dot(m_res, m_res))
    /\ [][ (/\ IsIdentity(m_precond)
            /\ state = "Iterating"
            /\ m_num_iter' = m_num_iter + 1) =>
             LET ref == RefStep(m_mat, x, m_res, m_update, m_abs_new)
                 err == RootDiv(VecNorm(ref.r), m_rhs_norm)
             IN  /\ x' = ref.x
                 /\ m_res' = ref.r
                 /\ m_error' = err
                 /\ state' = StateAfterStep(RootLt(err, m_tol), m_num_iter')
                 /\ ~RootLt(err, m_tol) =>
                       (m_update' = ref.p /\ m_abs_new' = ref.rr) ]_vars

\* a second step taken with the identity preconditioner
C16_Witness ==
    /\ IsIdentity(m_precond)
    /\ IsSPD(m_mat)
    /\ m_num_iter = 2
    /\ state = "Converged"
    /\ precApplies = 2

\* C13: a solve whose right-hand side or initial guess does not have the
\* size of the operator is rejected before the operator or the
\* preconditioner is applied and before any step: the arguments are left as
\* passed, the counter, the norm, the error and the workspace as they were
C13_MismatchRejected ==
    /\ []((Len(rhs) # Len(m_mat) \/ Len(x) # Len(m_mat[1])) =>
              (state \in { "Idle", "Rejected" } /\ matApplies = 0
                  /\ precApplies = 0))
    /\ [][ state' = "Rejected" =>
              /\ (Len(rhs') # Len(m_mat) \/ Len(x') # Len(m_mat[1]))
              /\ UNCHANGED << m_num_iter, m_rhs_norm, m_error, m_abs_new,
                              m_res, m_update, m_tmp >> ]_vars
    /\ [][ state = "Rejected" =>
              (solves' = solves + 1 \/ UNCHANGED SolverState) ]_vars

\* the rejected second solve of an instance whose first solve had iterated
C13_Witness ==
    /\ state = "Rejected"
    /\ solves = 2
    /\ m_num_iter >= 1
    /\ Len(x) = Len(m_mat[1]) + 1
    /\ matApplies = 0

\* what a solve returns: the solution, the state, the iteration count, the
\* final error and, when tracking, the trace
Outcome(s) ==
    << s.x, s.state, s.m_num_iter, s.m_error,
       IF m_calcEigenvals THEN << s.m_delta, s.m_gamma >> ELSE << >> >>

\* the members of the solver as a record
Self ==
    [m_num_iter |-> m_num_iter, m_rhs_norm |-> m_rhs_norm,
     m_error |-> m_error, m_abs_new |-> m_abs_new, m_res |-> m_res,
     m_update |-> m_update, m_tmp |-> m_tmp, m_delta |-> m_delta,
     m_gamma |-> m_gamma, state |-> state, x |-> x]

\* C17: at every point of a solve, whatever solves the instance ran before,
\* the solution, the state, the iteration count, the error and the trace
\* are those of the same call made on a newly constructed solver of the
\* same configuration; a call rejected on the one is rejected on the other
C17_OutcomeAsOnFreshInstance ==
    /\ state = fresh.state
    /\ Accepted => Outcome(Self) = Outcome(fresh)

\* a second solve, converged in initIteration, on an instance whose first
\* solve had iterated: the search direction and the inner product left by
\* the first solve are still there, the outcome is that of a fresh instance
C17_Witness ==
    /\ solves = 2
    /\ state = "Converged"
    /\ ~IsZeroVec(rhs)
    /\ m_num_iter = 0
    /\ fresh.state = "Converged"
    /\ fresh.x = x
    /\ fresh.m_update # m_update
    /\ fresh.m_abs_new # m_abs_new

\* the solve of rhsArg from x0 run alone on a newly constructed solver, up
\* to and including its k-th pass of the loop
RECURSIVE RunAlone(_, _, _)
RunAlone(rhsArg, x0, k) ==
    IF k = 0 THEN FreshSolve(rhsArg, x0)
    ELSE FreshStep(RunAlone(rhsArg, x0, k - 1))

\* the second instance is in a solve of its own while the first one iterates
BothSolving == state = "Iterating" /\ peer.state = "Iterating"

InvAlpha == Div(One, Div(m_abs_new, Dot(m_update, Apply(m_mat, m_update))))

\* v extends u by n entries and keeps the entries of u before its last
Extends(v, u, n) ==
    /\ Len(v) = Len(u) + n
    /\ \A i \in 1..(Len(u) - 1) : v[i] = u[i]

\* C24: with tracking enabled a step that does not converge appends one
\* entry to gamma and one to delta, a step that converges appends nothing;
\* either changes no earlier entry except for adding 1/alpha to the entry
\* that was the last of delta; so the length of gamma is the number of steps
\* of the solve that returned without convergence
C24_StepExtendsTrace ==
    /\ [][ (m_calcEigenvals /\ m_num_iter' = m_num_iter + 1) =>
             /\ m_delta'[Len(m_delta)] = Add(m_delta[Len(m_delta)], InvAlpha)
             /\ IF state' = "Converged"
                THEN Extends(m_delta', m_delta, 0) /\ m_gamma' = m_gamma
                ELSE /\ Extends(m_delta', m_delta, 1)
                     /\ Extends(m_gamma', m_gamma, 1)
                     /\ \A i \in 1..Len(m_gamma) : m_gamma'[i] = m_gamma[i] ]_vars
    /\ []((m_calcEigenvals /\ Accepted) =>
            Len(m_gamma) =
               IF state = "Converged" /\ m_num_iter >= 1
               THEN m_num_iter - 1 ELSE m_num_iter)

\* a tracked solve that converged in its third step, after two steps that
\* did not
C24_Witness ==
    /\ m_calcEigenvals
    /\ state = "Converged"
    /\ m_num_iter = 3
    /\ Len(m_gamma) = 2
    /\ Len(m_delta) = 3

\* C25: the iteration count of a solve is the number of step() calls it has
\* made, the converging one included; a finished solve reports 0 exactly
\* when initIteration returned true, that is before the preconditioner was
\* applied for the initial search direction
C25_IterationsAreStepCalls ==
    Accepted =>
        /\ m_num_iter = StepCalls
        /\ state \in Terminal => (m_num_iter = 0 <=> precApplies = 0)

\* the second solve on an instance, converged by its second step
C25_Witness ==
    /\ solves = 2
    /\ state = "Converged"
    /\ m_num_iter = 2
    /\ StepCalls = 2

\* the relative residual of the guess v for the right-hand side b is below
\* the tolerance
GuessWithinTol(b, v) ==
    RootLt(RootDiv(VecNorm(VecSub(b, Apply(m_mat, v))), VecNorm(b)), m_tol)

\* C26: a solve(rhs, x0) whose guess x0 already has a relative residual
\* below the tolerance ends Converged with no iteration counted, leaves x0 as
\* it was, applies the operator once and the preconditioner not at all
C26_GuessWithinTolerance ==
    [][ \A x0 \in Guesses(Len(m_mat[1])) :
          ( /\ solves' = solves + 1
            /\ Len(rhs') = Len(m_mat)
            /\ GuessWithinTol(rhs', x0)
            /\ Solve(rhs', x0) ) =>
              /\ state' = "Converged"
              /\ m_num_iter' = 0
              /\ x' = x0
              /\ matApplies' = 1
              /\ precApplies' = 0 ]_vars

\* a solve that has returned a non-zero guess whose residual is not zero but
\* below the tolerance, on an instance that had iterated before
C26_Witness ==
    /\ solves = 2
    /\ state = "Converged"
    /\ m_num_iter = 0
    /\ matApplies = 1
    /\ precApplies = 0
    /\ ~IsZeroVec(x)
    /\ ~IsZeroVec(VecSub(rhs, Apply(m_mat, x)))
    /\ ~IsZeroVec(m_update)

\* C27: a solve whose initIteration did not converge has applied the operator
\* once more than it has made steps and the preconditioner once more than it
\* has made steps that did not converge; a step moves x and the residual by
\* the operator applied to the search direction, and applies the
\* preconditioner, to the moved residual, only if that residual fails the
\* convergence test
C27_AppliesPerStep ==
    /\ []((Accepted /\ (state # "Converged" \/ m_num_iter >= 1)) =>
            /\ matApplies = 1 + m_num_iter
            /\ precApplies =
                  1 + m_num_iter - (IF state = "Converged" THEN 1 ELSE 0))
    /\ [][ m_num_iter' = m_num_iter + 1 =>
             LET t == Apply(m_mat, m_update)
                 a == Div(m_abs_new, Dot(m_update, t))
             IN  /\ matApplies' = matApplies + 1
                 /\ x' = VecAdd(x, Scale(a, m_update))
                 /\ m_res' = VecSub(m_res, Scale(a, t))
                 /\ IF RootLt(RootDiv(VecNorm(m_res'), m_rhs_norm), m_tol)
                    THEN precApplies' = precApplies /\ m_tmp' = t
                    ELSE /\ precApplies' = precApplies + 1
                         /\ m_tmp' = PrecondApply(m_precond, m_res') ]_vars

\* a solve of three steps, the last of which converged
C27_Witness ==
    /\ state = "Converged"
    /\ m_num_iter = 3
    /\ matApplies = 4
    /\ precApplies = 3

\* the last solve was tracked and converged on its first step
ConvergedOnFirstStep ==
    m_calcEigenvals /\ state = "Converged" /\ m_num_iter = 1

\* C28: the first step of a tracked solve, if it converges, leaves the trace
\* delta = << 1/alpha >> with gamma empty; 1/alpha is a finite non-zero
\* value, getEigenvalues() then returns that one value and
\* getConditionNumber() returns 1
C28_FirstStepSpectrum ==
    /\ [][ (m_calcEigenvals /\ m_num_iter = 0 /\ m_num_iter' = 1
              /\ state' = "Converged") =>
                m_delta' = << InvAlpha >> /\ m_gamma' = << >> ]_vars
    /\ [](ConvergedOnFirstStep =>
            /\ Len(m_delta) = 1
            /\ m_gamma = << >>
            /\ IsFinite(m_delta[1])
            /\ m_delta[1] # Zero
            /\ result.op = "getEigenvalues" =>
                  (result.value = << m_delta[1] >> /\ ~result.warned)
            /\ result.op = "getConditionNumber" =>
                  (result.value = One /\ ~result.warned))

\* the condition number 1 returned after such a solve whose 1/alpha is
\* not 1
C28_Witness ==
    /\ ConvergedOnFirstStep
    /\ result.op = "getConditionNumber"
    /\ result.value = One
    /\ m_delta[1] # One

\* the configuration held by the solver is one with a positive tolerance and
\* a positive iteration cap
PositiveConfiguration == Lt(Zero, m_tol) /\ m_max_iters >= 1

C22_GathervStoresAtDispl ==
    buffers.called # "none" =>
        \A k \in 0..(buffers.sendlen - 1) :
            buffers.out[buffers.displ[0] + k] = buffers.in[k]

\* the places of gsInfo that hold the message text
Written(text) == { i \in 1..Len(gsInfo) : gsInfo[i].text = text }

\* C23: no process is past a barrier() call that some process of the
\* communicator has not entered yet; so the message of rank 0 about the
\* number of processes is written before any "MPI is initialized" message,
\* and the "MPI is initialized" messages of all processes are written before
\* any "Hello G+Smo" message
C23_BarriersOrderMessages ==
    /\ \A p \in Ranks, b \in { "InBarrier1", "InBarrier2" } :
          Position(pc[p]) > Position(b) =>
             \A q \in Ranks : Position(pc[q]) >= Position(b)
    /\ \A i \in Written("MPI is initialized") :
          \E k \in Written("Running on") : k < i
    /\ \A j \in Written("Hello G+Smo") :
          /\ Cardinality(Written("MPI is initialized")) = comm.size
          /\ \A i \in Written("MPI is initialized") : i < j

\* all NProcs processes have returned, rank 0 being the last to write that
\* MPI is initialized and the first to write its greeting
C23_Witness ==
    /\ comm.size = NProcs
    /\ \A p \in Ranks : pc[p] = "Done"
    /\ Len(gsInfo) = 1 + 2 * NProcs
    /\ gsInfo[1 + NProcs].rank = 0
    /\ gsInfo[2 + NProcs].rank = 0

\* C29: the dimension of a gsBoxTopology is -1 or the value that first
\* replaced -1; apart from that first setting only clearAll() and swap()
\* change it, and clearAll() leaves no dimension, no box, no interface and
\* no boundary
C29_DimensionSetOnce ==
    /\ [](topology.m_dim \in { -1, firstDim })
    /\ [][ topology'.m_dim # topology.m_dim =>
             (topology.m_dim = -1 \/ ClearAll \/ Swap) ]_vars
    /\ [][ ClearAll =>
             /\ topology'.m_dim = -1
             /\ topology'.nboxes = 0
             /\ Len(topology'.m_interfaces) = 0
             /\ Len(topology'.m_boundary) = 0 ]_vars

\* a topology of dimension 1 with boxes, a boundary and an interface that
\* was given its dimension by setDim, after an earlier dimension was cleared
C29_Witness ==
    /\ topology.m_dim = 1
    /\ firstDim = 1
    /\ topology.nboxes = MaxBoxes
    /\ Len(topology.m_boundary) >= 1
    /\ Len(topology.m_interfaces) >= 1
    /\ topology.m_interfaces[1].dim = 1
    /\ other.m_dim = -1

\* the stored entries of a matrix as (row, column, value), by column and
\* within a column by row
RECURSIVE StoredTriplets(_, _)
StoredTriplets(m, j) ==
    IF j >= m.cols THEN << >>
    ELSE LET its == InnerIterator(m, j, 0)
         IN  [k \in 1..Len(its) |-> << its[k].index, j, its[k].value >>]
                \o StoredTriplets(m, j + 1)

\* C30: the entries getSparseEntriesFromXml reads from the node that
\* putSparseMatrixToXml wrote for a matrix are the (row, column, value)
\* triples of the entries the matrix stores, by column, whatever the
\* container held before
C30_SparseRoundTrip ==
    entries.from = "xml" => entries.triplets = StoredTriplets(mat, 0)

====
